---- MODULE Spec2Model ----
(***************************************************************************)
(* MiniGit (src/minigit/cli.py): the object store, the tree codec and the  *)
(* commit builder.  Byte strings (Python bytes) are sequences of integers  *)
(* 0..255, text strings (Python str) are sequences of code points.         *)
(***************************************************************************)
EXTENDS Integers, Sequences, FiniteSets, TLC

\* ------------------------------------------------------------------ bounds

\* How many distinct contents SHA-1 is asked to hash in one run.
MaxObjects == 2
\* How many distinct commits are written in one run.
MaxCommits == 1
\* How many loop iterations of ls_tree a run follows.
MaxLines == 4
\* How many entries the trees given to the decoder are encoded from.
MaxEntries == 2

\* ------------------------------------------------------- program constants

\* Length in bytes of a raw SHA-1 digest (ls_tree reads 20 bytes per entry).
RAW_LEN == 20
\* Length of the hexadecimal form of a digest.
HEX_LEN == 40
\* Length of the fan-out directory name (sha1[:2]).
FANOUT_LEN == 2

\* Python's None, and a value that may be None: no value is the empty
\* sequence, a value x is the sequence of x alone.
None == <<>>
Some(x) == <<x>>
\* The exit status of a command that is still running.
RUNNING == -1

NUL == 0
SP == 32
LF == 10
TAB == 9

\* ------------------------------------------------------ sequences of bytes

RECURSIVE ConcatRange(_, _, _)
\* parts[lo] \o ... \o parts[hi], by halves.
ConcatRange(parts, lo, hi) ==
  IF lo > hi THEN <<>>
  ELSE IF lo = hi THEN parts[lo]
  ELSE LET mid == (lo + hi) \div 2
       IN ConcatRange(parts, lo, mid) \o ConcatRange(parts, mid + 1, hi)

\* b"".join(parts)
Concat(parts) == ConcatRange(parts, 1, Len(parts))

\* sep.join(parts)
Join(sep, parts) ==
  Concat([x \in 1..Len(parts) |->
            IF x = 1 THEN parts[x] ELSE sep \o parts[x]])

\* s[a:b] of Python: a negative index counts from the end, and both ends are
\* clamped to the sequence.
Slice(s, a, b) ==
  LET n == Len(s)
      lo0 == IF a < 0 THEN a + n ELSE a
      hi0 == IF b < 0 THEN b + n ELSE b
      lo == IF lo0 < 0 THEN 0 ELSE IF lo0 > n THEN n ELSE lo0
      hi == IF hi0 < 0 THEN 0 ELSE IF hi0 > n THEN n ELSE hi0
  IN IF lo >= hi THEN <<>> ELSE SubSeq(s, lo + 1, hi)

\* s.find(bytes([c]), start): the 0-based index of the first c at or after
\* start, -1 when there is none.
Find(s, c, start) ==
  LET hits == {p \in (start + 1)..Len(s) : s[p] = c}
  IN IF hits = {} THEN -1
     ELSE (CHOOSE p \in hits : \A q \in hits : p <= q) - 1

\* s.startswith(prefix)
StartsWith(s, prefix) ==
  Len(s) >= Len(prefix) /\ SubSeq(s, 1, Len(prefix)) = prefix

\* raw.rsplit(b"\x00", 1): header and body around the last null byte.
SplitLast(raw) ==
  LET hits == {p \in 1..Len(raw) : raw[p] = NUL}
      k == CHOOSE p \in hits : \A q \in hits : p >= q
  IN [header |-> SubSeq(raw, 1, k - 1), body |-> SubSeq(raw, k + 1, Len(raw))]

\* raw.split(b"\x00", 1): header and body around the first null byte.
SplitHeader(raw) ==
  LET k == Find(raw, NUL, 0)
  IN [header |-> SubSeq(raw, 1, k), body |-> SubSeq(raw, k + 2, Len(raw))]

RECURSIVE Digits(_)
Digits(n) ==
  IF n < 10 THEN <<48 + n>> ELSE Digits(n \div 10) \o <<48 + (n % 10)>>

\* str(n) for n >= 0, in ASCII.
Str(n) == Digits(n)

\* ----------------------------------------------------------- hexadecimal

HexChar(v) == IF v < 10 THEN 48 + v ELSE 87 + v

\* The value of a hexadecimal character; bytes.fromhex takes both cases.
HexVal(c) ==
  IF c >= 48 /\ c <= 57 THEN c - 48
  ELSE IF c >= 97 /\ c <= 102 THEN c - 87
  ELSE IF c >= 65 /\ c <= 70 THEN c - 55
  ELSE -1

\* bytes.hex(): two lowercase characters per byte.
Hex(bs) ==
  [p \in 1..(2 * Len(bs)) |->
     LET b == bs[(p + 1) \div 2]
     IN IF p % 2 = 1 THEN HexChar(b \div 16) ELSE HexChar(b % 16)]

\* bytes.fromhex(hex) for an even number of hexadecimal characters.
FromHex(hex) ==
  [p \in 1..(Len(hex) \div 2) |->
     16 * HexVal(hex[2 * p - 1]) + HexVal(hex[2 * p])]

\* ------------------------------------------------------------------ UTF-8

\* str.encode() of one code point.
EncodeCp(cp) ==
  IF cp < 128 THEN <<cp>>
  ELSE IF cp < 2048 THEN <<192 + (cp \div 64), 128 + (cp % 64)>>
  ELSE IF cp < 65536
    THEN <<224 + (cp \div 4096), 128 + ((cp \div 64) % 64), 128 + (cp % 64)>>
  ELSE <<240 + (cp \div 262144), 128 + ((cp \div 4096) % 64),
         128 + ((cp \div 64) % 64), 128 + (cp % 64)>>

\* str.encode(): UTF-8.
Encode(s) == Concat([x \in 1..Len(s) |-> EncodeCp(s[x])])

\* A continuation byte of UTF-8.
IsCont(b) == b >= 128 /\ b <= 191

\* The number of bytes of the character that byte b begins, 0 when no
\* character begins with b.
CharLen(b) ==
  IF b < 128 THEN 1
  ELSE IF b >= 194 /\ b <= 223 THEN 2
  ELSE IF b >= 224 /\ b <= 239 THEN 3
  ELSE IF b >= 240 /\ b <= 244 THEN 4
  ELSE 0

\* The character that begins at position p of bs is well formed: enough
\* continuation bytes follow, and it is neither overlong, a surrogate, nor
\* above U+10FFFF.
CharOk(bs, p) ==
  LET b == bs[p]
      l == CharLen(b)
  IN /\ l > 0
     /\ p + l - 1 <= Len(bs)
     /\ \A q \in (p + 1)..(p + l - 1) : IsCont(bs[q])
     /\ (b = 224 => bs[p + 1] >= 160)
     /\ (b = 237 => bs[p + 1] <= 159)
     /\ (b = 240 => bs[p + 1] >= 144)
     /\ (b = 244 => bs[p + 1] <= 143)
     /\ (p + l <= Len(bs) => ~IsCont(bs[p + l]))

\* The code point of the well-formed character that begins at position p.
CharAt(bs, p) ==
  LET b == bs[p]
      l == CharLen(b)
  IN IF l = 1 THEN b
     ELSE IF l = 2 THEN (b - 192) * 64 + (bs[p + 1] - 128)
     ELSE IF l = 3
       THEN (b - 224) * 4096 + (bs[p + 1] - 128) * 64 + (bs[p + 2] - 128)
     ELSE (b - 240) * 262144 + (bs[p + 1] - 128) * 4096
          + (bs[p + 2] - 128) * 64 + (bs[p + 3] - 128)

\* bytes.decode(): UTF-8, strict; ok is FALSE where Python raises
\* UnicodeDecodeError.  A byte string is well formed when it does not begin
\* with a continuation byte and every other byte begins a well-formed
\* character that ends where the next one begins.
Decode(bs) ==
  LET starts == {p \in 1..Len(bs) : ~IsCont(bs[p])}
      ok == /\ (Len(bs) > 0 => 1 \in starts)
            /\ \A p \in starts : CharOk(bs, p)
      nth(x) == CHOOSE p \in starts :
                  Cardinality({q \in starts : q <= p}) = x
  IN IF ok
     THEN [ok |-> TRUE,
           val |-> [x \in 1..Cardinality(starts) |-> CharAt(bs, nth(x))]]
     ELSE [ok |-> FALSE, val |-> <<>>]

\* Python's order of str values: lexicographic by code point.
StrLess(a, b) ==
  \E p \in 1..(Len(a) + 1) :
    /\ p <= Len(b)
    /\ \A q \in 1..(p - 1) : a[q] = b[q]
    /\ (p = Len(a) + 1 \/ a[p] < b[p])

\* ------------------------------------------------------------------- zlib

ADLER_MOD == 65521

RECURSIVE SumMod(_, _, _)
\* The sum of xs[lo..hi] modulo ADLER_MOD, by halves.
SumMod(xs, lo, hi) ==
  IF lo > hi THEN 0
  ELSE IF lo = hi THEN xs[lo] % ADLER_MOD
  ELSE LET mid == (lo + hi) \div 2
       IN (SumMod(xs, lo, mid) + SumMod(xs, mid + 1, hi)) % ADLER_MOD

\* The Adler-32 checksum that ends a zlib stream, as four bytes: a is 1 plus
\* the sum of the bytes, b the sum of the values a takes (so byte p counts
\* n - p + 1 times), both modulo 65521.
Adler32(bs) ==
  LET n == Len(bs)
      weighted == [p \in 1..n |-> (((n - p + 1) % ADLER_MOD) * bs[p]) % ADLER_MOD]
      a == (1 + SumMod(bs, 1, n)) % ADLER_MOD
      b == (n + SumMod(weighted, 1, n)) % ADLER_MOD
  IN <<b \div 256, b % 256, a \div 256, a % 256>>

\* zlib.compress(data): a zlib stream (header 78 01, one deflate block, the
\* Adler-32 of the data).  The deflate block is the stored kind: final-block
\* byte, length, one's complement of the length, the data.
Compress(data) ==
  LET n == Len(data)
  IN <<120, 1, 1, n % 256, n \div 256, 255 - (n % 256), 255 - (n \div 256)>>
     \o data \o Adler32(data)

\* zlib.decompress(stream); ok is FALSE where zlib raises zlib.error.
Decompress(z) ==
  LET bad == [ok |-> FALSE, val |-> <<>>]
  IN IF \/ Len(z) < 11
        \/ z[1] # 120
        \/ (256 * z[1] + z[2]) % 31 # 0
        \/ z[3] # 1
     THEN bad
     ELSE LET n == z[4] + 256 * z[5]
          IN IF \/ z[6] # 255 - z[4]
                \/ z[7] # 255 - z[5]
                \/ Len(z) # n + 11
             THEN bad
             ELSE LET data == SubSeq(z, 8, 7 + n)
                  IN IF SubSeq(z, 8 + n, 11 + n) = Adler32(data)
                     THEN [ok |-> TRUE, val |-> data]
                     ELSE bad

\* --------------------------------------------------------------- SHA-1

\* The bytes the digests of the model are made of: a null byte, a space, a
\* byte that is not ASCII and a letter.
DigestBytes == <<0, 32, 255, 97>>

\* The k-th digest SHA-1 hands out, as 20 raw bytes.  Digests differ in their
\* first byte, so in their fan-out directory too.
RawDigest(k) ==
  [p \in 1..RAW_LEN |->
     IF p = 1 THEN 16 * k + 10 ELSE DigestBytes[((p + k) % 4) + 1]]

\* The digests a command line can name: those SHA-1 can hand out, and one
\* (number 0) that is the digest of nothing in the store.
DigestArgs == {Hex(RawDigest(k)) : k \in 0..MaxObjects}

\* hashlib.sha1(content): SHA-1 as a collision-free function fixed lazily.
\* memo holds the contents hashed so far; a content met for the first time
\* gets the next digest, a content met again gets the digest it got before.
Sha1Index(memo, content) ==
  IF content \in DOMAIN memo THEN memo[content]
  ELSE Cardinality(DOMAIN memo) + 1

\* hashlib.sha1(content).hexdigest()
Sha1Hex(memo, content) == Hex(RawDigest(Sha1Index(memo, content)))

Sha1Learn(memo, content) ==
  IF content \in DOMAIN memo THEN memo
  ELSE memo @@ (content :> Cardinality(DOMAIN memo) + 1)

\* ---------------------------------------------------------- object store

\* OBJ_DIR / sha1[:2] / sha1[2:], as the path components below OBJ_DIR.
FanoutPath(sha1) ==
  <<Slice(sha1, 0, FANOUT_LEN), Slice(sha1, FANOUT_LEN, Len(sha1))>>

\* OBJ_DIR / sha1
FlatPath(sha1) == <<sha1>>

\* A lookup that tries the flat layout first.
object_path_flat_first(files, sha1) ==
  IF FlatPath(sha1) \in DOMAIN files THEN FlatPath(sha1)
  ELSE IF FanoutPath(sha1) \in DOMAIN files THEN FanoutPath(sha1)
  ELSE None

\* _object_path: fan-out layout preferred, fall back to flat, None if missing.
object_path(files, sha1) ==
  IF FanoutPath(sha1) \in DOMAIN files THEN FanoutPath(sha1)
  ELSE IF FlatPath(sha1) \in DOMAIN files THEN FlatPath(sha1)
  ELSE None

\* _read_object: the decompressed bytes, or the exception raised.
read_object(files, sha1) ==
  LET p == object_path(files, sha1)
  IN IF p = None
     THEN [ok |-> FALSE, err |-> "FileNotFoundError", path |-> None, val |-> <<>>]
     ELSE LET d == Decompress(files[p])
          IN IF d.ok
             THEN [ok |-> TRUE, err |-> "", path |-> p, val |-> d.val]
             ELSE [ok |-> FALSE, err |-> "zlib.error", path |-> p, val |-> <<>>]

\* A write that moves an object found in the flat layout to the fan-out
\* layout.
write_object_migrate(st, content) ==
  LET sha1 == Sha1Hex(st.memo, content)
      dest == FanoutPath(sha1)
      kept == DOMAIN st.files \ {FlatPath(sha1)}
  IN [sha1 |-> sha1,
      existed |-> dest \in DOMAIN st.files,
      files |-> IF dest \in DOMAIN st.files THEN st.files
                ELSE [p \in kept \cup {dest} |->
                        IF p = dest THEN Compress(content) ELSE st.files[p]],
      memo |-> Sha1Learn(st.memo, content)]

\* _write_object: st is the store before (its files and what SHA-1 has
\* hashed); the result is the digest returned, whether dest_path existed,
\* and the store after.
write_object(st, content) ==
  LET sha1 == Sha1Hex(st.memo, content)
      dest == FanoutPath(sha1)
  IN [sha1 |-> sha1,
      existed |-> dest \in DOMAIN st.files,
      files |-> IF dest \in DOMAIN st.files THEN st.files
                ELSE st.files @@ (dest :> Compress(content)),
      memo |-> Sha1Learn(st.memo, content)]

\* b"<kind> " + str(len(data)).encode() + b"\x00" + data
ObjectBytes(kind, data) == kind \o Str(Len(data)) \o <<NUL>> \o data

BLOB == <<98, 108, 111, 98, 32>>
TREE == <<116, 114, 101, 101, 32>>
COMMIT == <<99, 111, 109, 109, 105, 116, 32>>

\* _write_blob
write_blob(st, data) == write_object(st, ObjectBytes(BLOB, data))

\* ------------------------------------------------------------- write-tree

GIT_NAME == <<46, 103, 105, 116>>
MODE_DIR == <<52, 48, 48, 48, 48>>
MODE_EXEC == <<49, 48, 48, 55, 53, 53>>
MODE_FILE == <<49, 48, 48, 54, 52, 52>>

\* path.stat().st_mode & 0o111: some execute permission bit is set.
AnyExecBit(perm) ==
  (perm \div 64) % 2 = 1 \/ (perm \div 8) % 2 = 1 \/ perm % 2 = 1

\* _file_mode: a node of the working directory is a file (its bytes and its
\* permission bits) or a directory (its children by name).
file_mode(node) ==
  IF node.kind = "dir" THEN MODE_DIR
  ELSE IF AnyExecBit(node.perm) THEN MODE_EXEC ELSE MODE_FILE

RECURSIVE ListDescending(_)
\* The names listed from the last to the first.
ListDescending(names) ==
  IF names = {} THEN <<>>
  ELSE LET m == CHOOSE x \in names : \A y \in names \ {x} : StrLess(y, x)
       IN <<m>> \o ListDescending(names \ {m})

RECURSIVE SortedNames(_)
\* sorted(dir_path.iterdir(), key=lambda p: p.name), as the names.
SortedNames(names) ==
  IF names = {} THEN <<>>
  ELSE LET m == CHOOSE x \in names : \A y \in names \ {x} : StrLess(x, y)
       IN <<m>> \o SortedNames(names \ {m})

\* mode.encode() + b" " + name.encode() + b"\x00" + bytes.fromhex(sha) of one
\* entry (name, mode, sha).
EntryBytes(e) == Encode(e[2]) \o <<SP>> \o Encode(e[1]) \o <<NUL>> \o FromHex(e[3])

\* The body of a tree object: the entries' bytes joined in order.
TreeBody(entries) == Concat([x \in 1..Len(entries) |-> EntryBytes(entries[x])])

RECURSIVE write_tree_for_dir(_, _)
RECURSIVE WriteChildren(_, _, _, _)

\* The only member of a set of one member.  Results that are used more than
\* once are bound as the member of a singleton, so that they are computed once.
The(S) == CHOOSE x \in S : TRUE

\* The store a write leaves, with the trees written so far.
After(w, trees) == [files |-> w.files, memo |-> w.memo, trees |-> trees]

\* One pass of the loop of _write_tree_for_dir over the sorted children that
\* are left; entries are the tuples (name, mode, sha) appended so far.
WriteChildren(dir, names, st, entries) ==
  IF names = <<>> THEN [entries |-> entries, st |-> st]
  ELSE
    LET name == Head(names)
        child == dir.children[name]
    IN IF name = GIT_NAME THEN WriteChildren(dir, Tail(names), st, entries)
       ELSE The({ WriteChildren(dir, Tail(names), r.st,
                    Append(entries, <<name, file_mode(child), r.sha1>>)) :
                  r \in { IF child.kind = "dir"
                          THEN write_tree_for_dir(child, st)
                          ELSE The({ [sha1 |-> w.sha1, existed |-> w.existed,
                                      st |-> After(w, st.trees)] :
                                     w \in {write_blob(st, child.data)} }) } })

\* _write_tree_for_dir: st is the store before and the trees written so far
\* by this command (for each, the directory, its entries and its digest).
write_tree_for_dir(dir, st) ==
  The({ The({ [sha1 |-> w.sha1, existed |-> w.existed,
               st |-> After(w, Append(c.st.trees,
                        [dir |-> dir, entries |-> c.entries,
                         sha1 |-> w.sha1]))] :
              w \in {write_object(c.st,
                                  ObjectBytes(TREE, TreeBody(c.entries)))} }) :
        c \in {WriteChildren(dir, SortedNames(DOMAIN dir.children), st,
                             <<>>)} })

\* ------------------------------------------------------------ commit-tree

AUTHOR ==
  <<77, 97, 110, 110, 32, 60, 109, 97, 110, 110, 64, 101, 120, 97, 109, 112, 108, 101, 46, 99, 111, 109, 62>>
TIMEZONE == <<43, 48, 48, 48, 48>>
OPT_P == <<45, 112>>
OPT_M == <<45, 109>>
TREE_SP == <<116, 114, 101, 101, 32>>
PARENT_SP == <<112, 97, 114, 101, 110, 116, 32>>
AUTHOR_SP == <<97, 117, 116, 104, 111, 114, 32>>
TREE_WORD == <<116, 114, 101, 101>>
BLOB_WORD == <<98, 108, 111, 98>>
COMMITTER_SP == <<99, 111, 109, 109, 105, 116, 116, 101, 114, 32>>

\* An "if parent_sha is not None" instead of the truth test.
ParentGivenNotNone(parent_sha) == parent_sha # None

\* if parent_sha: the truth value of a str or None.
ParentGiven(parent_sha) == parent_sha # None /\ parent_sha[1] # <<>>

\* commit_tree: the text of the commit; parent_sha is None or Some(str).
CommitContent(tree_sha, parent_sha, message, timestamp) ==
  LET who == AUTHOR \o <<SP>> \o Str(timestamp) \o <<SP>> \o TIMEZONE
      lines == <<TREE_SP \o tree_sha>>
               \o (IF ParentGiven(parent_sha)
                   THEN <<PARENT_SP \o parent_sha[1]>> ELSE <<>>)
               \o <<AUTHOR_SP \o who, COMMITTER_SP \o who, <<>>, message>>
  IN Join(<<LF>>, lines) \o <<LF>>

RECURSIVE ParseCommitArgs(_, _)
\* The option loop of main for commit-tree over the arguments after the tree
\* digest: the parent, the message, or a usage error.
ParseCommitArgs(args, parent_sha) ==
  IF args = <<>>
    THEN [usage |-> TRUE, parent_sha |-> parent_sha, message |-> None]
  ELSE IF Head(args) = OPT_P
    THEN IF parent_sha # None \/ Len(args) < 2
         THEN [usage |-> TRUE, parent_sha |-> parent_sha, message |-> None]
         ELSE ParseCommitArgs(Tail(Tail(args)), Some(args[2]))
  ELSE IF Head(args) = OPT_M
    THEN [usage |-> FALSE, parent_sha |-> parent_sha,
          message |-> Some(Join(<<SP>>, Tail(args)))]
  ELSE [usage |-> TRUE, parent_sha |-> parent_sha, message |-> None]

\* ---------------------------------------------------------------- ls-tree

\* "tree" if mode.startswith("4") else "blob"
ObjType(mode) ==
  IF StartsWith(mode, <<52>>) THEN TREE_WORD ELSE BLOB_WORD

\* f"{mode} {obj_type} {sha_hex}\t{name}"
FormatLine(mode, sha_hex, name) ==
  mode \o <<SP>> \o ObjType(mode) \o <<SP>> \o sha_hex \o <<TAB>> \o name

\* An iteration that takes the digest from the null byte on.
LsTreeStepFromNul(b, i0, name_only) ==
  LET j == Find(b, SP, i0)
      mode == Decode(Slice(b, i0, j))
      i1 == j + 1
      k == Find(b, NUL, i1)
      name == Decode(Slice(b, i1, k))
      i2 == k
      sha_hex == Hex(Slice(b, i2, i2 + RAW_LEN))
  IN [ok |-> mode.ok /\ name.ok,
      i |-> i2 + RAW_LEN,
      line |-> IF ~(mode.ok /\ name.ok) THEN <<>>
               ELSE IF name_only THEN name.val
               ELSE FormatLine(mode.val, sha_hex, name.val)]

\* One iteration of the loop of ls_tree from scan position i0: the position
\* after it and the line appended; ok is FALSE where a decode() raises.
LsTreeStep(b, i0, name_only) ==
  LET j == Find(b, SP, i0)
      mode == Decode(Slice(b, i0, j))
      i1 == j + 1
      k == Find(b, NUL, i1)
      name == Decode(Slice(b, i1, k))
      i2 == k + 1
      sha_hex == Hex(Slice(b, i2, i2 + RAW_LEN))
  IN [ok |-> mode.ok /\ name.ok,
      i |-> i2 + RAW_LEN,
      line |-> IF ~(mode.ok /\ name.ok) THEN <<>>
               ELSE IF name_only THEN name.val
               ELSE FormatLine(mode.val, sha_hex, name.val)]

\* --------------------------------------------------------------- messages

NOT_FOUND == "fatal: object not found"
NOT_A_BLOB == "fatal: not a blob object"
NOT_A_TREE == "fatal: not a tree object"
USAGE == "usage"
\* An exception that nothing catches: Python prints the traceback and exits
\* with status 1.
TRACEBACK == "Traceback"

HEAD_TEXT ==
  <<114, 101, 102, 58, 32, 114, 101, 102, 115, 47, 104, 101, 97, 100, 115, 47, 109, 97, 105, 110, 10>>
INIT_TEXT ==
  <<73, 110, 105, 116, 105, 97, 108, 105, 122, 101, 100, 32, 103, 105, 116, 32, 100, 105, 114, 101, 99, 116, 111, 114, 121>>

\* What cat-file -p does on a store: the path _object_path found, the
\* bytes for standard output, the message for standard error, the status.
CatFile(fs, sha1) ==
  LET r == read_object(fs, sha1)
      fail(msg) == [path |-> r.path, stdout |-> <<>>, stderr |-> msg,
                    status |-> 1]
  IN IF ~r.ok
     THEN fail(IF r.err = "FileNotFoundError" THEN NOT_FOUND ELSE TRACEBACK)
     ELSE IF Find(r.val, NUL, 0) = -1 THEN fail(TRACEBACK)
     ELSE LET h == SplitHeader(r.val)
          IN IF ~StartsWith(h.header, BLOB) THEN fail(NOT_A_BLOB)
             ELSE [path |-> r.path, stdout |-> h.body, stderr |-> "",
                   status |-> 0]

\* What ls-tree does before its loop: an error, or the body to decode.
LsTreeOpen(fs, sha1) ==
  LET r == read_object(fs, sha1)
      fail(msg) == [path |-> r.path, body |-> <<>>, stderr |-> msg,
                    status |-> 1]
  IN IF ~r.ok
     THEN fail(IF r.err = "FileNotFoundError" THEN NOT_FOUND ELSE TRACEBACK)
     ELSE IF Find(r.val, NUL, 0) = -1 THEN fail(TRACEBACK)
     ELSE LET h == SplitHeader(r.val)
          IN IF ~StartsWith(h.header, TREE) THEN fail(NOT_A_TREE)
             ELSE [path |-> r.path, body |-> h.body, stderr |-> "",
                   status |-> RUNNING]

\* ----------------------------------------------------------------- inputs

\* File contents: empty, "hi", and "h", a null byte, "i".
BlobData == {<<>>, <<104, 105>>, <<104, 0, 105>>}

\* Permission bits of a file: 0o644, 0o755 and 0o610 (group execute only).
File(data, perm) == [kind |-> "file", data |-> data, perm |-> perm]
Dir(children) == [kind |-> "dir", children |-> children]

NAME_A == <<97>>
NAME_B == <<98>>
NAME_A_B == <<97, 32, 98>>
NAME_A_TXT == <<97, 46, 116, 120, 116>>
\* One code point above ASCII: e with acute accent, two bytes in UTF-8.
NAME_E == <<233>>

\* The .git directory that ensure_git_dirs makes before the walk.
GitDir == Dir((<<111, 98, 106, 101, 99, 116, 115>> :> Dir(<<>>)))

\* The working directories write-tree is run in: only .git; one file
\* (Scenario B of the specification); three directories that hold no file
\* to list, one of them with a file named .git; three files with the same
\* bytes; a directory that holds a file and a file named .git.
WorkDirs ==
  { Dir((GIT_NAME :> GitDir)),
    Dir((GIT_NAME :> GitDir) @@ (NAME_A_TXT :> File(<<104, 105>>, 420))),
    Dir((GIT_NAME :> GitDir) @@ (NAME_E :> Dir(<<>>))
        @@ (NAME_A_B :> Dir(<<>>))
        @@ (NAME_A :> Dir((GIT_NAME :> File(<<104, 105>>, 420))))),
    Dir((GIT_NAME :> GitDir) @@ (NAME_B :> File(<<104, 0, 105>>, 420))
        @@ (NAME_A :> File(<<104, 0, 105>>, 493))
        @@ (NAME_A_B :> File(<<104, 0, 105>>, 392))),
    Dir((GIT_NAME :> GitDir)
        @@ (NAME_E :> Dir((GIT_NAME :> File(<<>>, 420))
                          @@ (NAME_A :> File(<<104, 105>>, 392))))) }

\* A digest that names nothing in the store, and the first SHA-1 hands out.
DANGLING == Hex(RawDigest(0))
FIRST == Hex(RawDigest(1))

MSG_INIT == <<105, 110, 105, 116>>
MSG_PARENT == <<112, 97, 114, 101, 110, 116>>

\* The arguments of commit-tree after the tree digest.
CommitArgLists ==
  { <<OPT_M, MSG_INIT>>,
    <<OPT_P, DANGLING, OPT_M, MSG_INIT>>,
    <<OPT_P, <<>>, OPT_M, MSG_INIT>>,
    <<OPT_P, FIRST, OPT_M>>,
    <<OPT_M, <<LF>>, MSG_PARENT, DANGLING>>,
    <<OPT_P, DANGLING>>,
    <<OPT_P, DANGLING, OPT_P, FIRST, OPT_M, MSG_INIT>>,
    <<MSG_INIT>>,
    <<>> }

\* int(time.time())
Timestamps == {0, 1700000000}

\* Objects another tool left in the store before the first command.
PreObjects == {ObjectBytes(BLOB, <<104, 105>>), ObjectBytes(TREE, <<>>)}

Layouts == {"fanout", "flat"}

PathIn(layout, sha1) ==
  IF layout = "fanout" THEN FanoutPath(sha1) ELSE FlatPath(sha1)

\* ------------------------------------------------------------------ state

VARIABLES
  files,      \* the files below .git/objects: path |-> bytes
  sha1Memo,   \* the contents SHA-1 has hashed, each with its digest's number
  HEAD,       \* the text of .git/HEAD, None before init
  refs,       \* whether .git/refs exists
  pc,         \* "idle" between commands, "ls_tree" inside the loop of ls_tree
  cmd,        \* the command run last, with its inputs
  stdout,     \* what it wrote to standard output
  stderr,     \* what it wrote to standard error
  status,     \* its exit status, RUNNING while it runs
  path,       \* what _object_path returned to it, None if nothing
  existed,    \* whether dest_path existed in its last _write_object
  trees,      \* the trees _write_tree_for_dir wrote for it
  body,       \* ls_tree: the body being decoded
  i,          \* ls_tree: the scan position
  lines,      \* ls_tree: the lines collected
  entriesIn   \* Some(the entry list the tree under test was encoded from)

vars ==
  <<files, sha1Memo, HEAD, refs, pc, cmd, stdout, stderr, status, path,
    existed, trees, body, i, lines, entriesIn>>

NoFiles == [p \in {} |-> <<>>]

Fresh ==
  /\ HEAD = None
  /\ refs = FALSE
  /\ pc = "idle"
  /\ cmd = [name |-> "none"]
  /\ stdout = <<>>
  /\ stderr = ""
  /\ status = RUNNING
  /\ path = None
  /\ existed = FALSE
  /\ trees = <<>>
  /\ body = <<>>
  /\ i = 0
  /\ lines = <<>>

Init ==
  /\ Fresh
  /\ entriesIn = None
  /\ \/ files = NoFiles /\ sha1Memo = NoFiles
     \/ \E c \in PreObjects, layout \in Layouts :
          /\ files = (PathIn(layout, FIRST) :> Compress(c))
          /\ sha1Memo = (c :> 1)

\* ---------------------------------------------------------------- actions

NoRead == path' = None
NoWrite == existed' = FALSE /\ trees' = <<>>
NoLoop == body' = <<>> /\ i' = 0 /\ lines' = <<>>

\* The commit objects SHA-1 has hashed.
Commits(memo) == {c \in DOMAIN memo : StartsWith(c, COMMIT)}

\* init_repo
init_repo ==
  /\ pc = "idle"
  /\ cmd' = [name |-> "init"]
  /\ HEAD' = Some(HEAD_TEXT)
  /\ refs' = TRUE
  /\ stdout' = INIT_TEXT \o <<LF>>
  /\ stderr' = ""
  /\ status' = 0
  /\ pc' = "done"
  /\ NoRead /\ NoWrite /\ NoLoop
  /\ UNCHANGED <<files, sha1Memo, entriesIn>>

\* cat_file_p
cat_file_p ==
  /\ pc = "idle"
  /\ \E sha1 \in DigestArgs :
       LET r == CatFile(files, sha1)
       IN /\ cmd' = [name |-> "cat-file", sha1 |-> sha1]
          /\ path' = r.path
          /\ stdout' = r.stdout
          /\ stderr' = r.stderr
          /\ status' = r.status
  /\ pc' = "done"
  /\ NoWrite /\ NoLoop
  /\ UNCHANGED <<files, sha1Memo, HEAD, refs, entriesIn>>

\* hash_object_w
hash_object_w ==
  /\ pc = "idle"
  /\ \E data \in BlobData :
       LET w == write_object([files |-> files, memo |-> sha1Memo],
                             ObjectBytes(BLOB, data))
       IN /\ Cardinality(DOMAIN w.memo) <= MaxObjects
          /\ cmd' = [name |-> "hash-object", data |-> data]
          /\ files' = w.files
          /\ sha1Memo' = w.memo
          /\ existed' = w.existed
          /\ stdout' = w.sha1 \o <<LF>>
  /\ stderr' = ""
  /\ status' = 0
  /\ pc' = "done"
  /\ trees' = <<>>
  /\ NoRead /\ NoLoop
  /\ UNCHANGED <<HEAD, refs, entriesIn>>

\* write_tree
write_tree ==
  /\ pc = "idle"
  /\ \E dir \in WorkDirs :
       LET r == write_tree_for_dir(dir, [files |-> files, memo |-> sha1Memo,
                                         trees |-> <<>>])
       IN /\ Cardinality(DOMAIN r.st.memo) <= MaxObjects
          /\ cmd' = [name |-> "write-tree", dir |-> dir]
          /\ files' = r.st.files
          /\ sha1Memo' = r.st.memo
          /\ trees' = r.st.trees
          /\ existed' = r.existed
          /\ stdout' = r.sha1 \o <<LF>>
  /\ stderr' = ""
  /\ status' = 0
  /\ pc' = "done"
  /\ NoRead /\ NoLoop
  /\ UNCHANGED <<HEAD, refs, entriesIn>>

\* main for commit-tree, then commit_tree
commit_tree ==
  /\ pc = "idle"
  /\ \E args \in CommitArgLists, timestamp \in Timestamps :
       LET a == ParseCommitArgs(args, None)
           content == CommitContent(FIRST, a.parent_sha, a.message[1], timestamp)
           w == write_object([files |-> files, memo |-> sha1Memo],
                             ObjectBytes(COMMIT, Encode(content)))
       IN /\ cmd' = [name |-> "commit-tree", tree_sha |-> FIRST,
                     args |-> args, timestamp |-> timestamp]
          /\ IF a.usage
             THEN /\ stdout' = <<>>
                  /\ stderr' = USAGE
                  /\ status' = 1
                  /\ existed' = FALSE
                  /\ UNCHANGED <<files, sha1Memo>>
             ELSE /\ Cardinality(DOMAIN w.memo) <= MaxObjects
                  /\ Cardinality(Commits(w.memo)) <= MaxCommits
                  /\ files' = w.files
                  /\ sha1Memo' = w.memo
                  /\ existed' = w.existed
                  /\ stdout' = w.sha1 \o <<LF>>
                  /\ stderr' = ""
                  /\ status' = 0
  /\ pc' = "done"
  /\ trees' = <<>>
  /\ NoRead /\ NoLoop
  /\ UNCHANGED <<HEAD, refs, entriesIn>>

\* ls_tree up to its loop
ls_tree ==
  /\ pc = "idle"
  /\ \E sha1 \in DigestArgs, name_only \in BOOLEAN :
       LET r == LsTreeOpen(files, sha1)
       IN /\ cmd' = [name |-> "ls-tree", sha1 |-> sha1,
                     name_only |-> name_only]
          /\ path' = r.path
          /\ body' = r.body
          /\ stderr' = r.stderr
          /\ status' = r.status
          /\ pc' = IF r.status = RUNNING THEN "ls_tree" ELSE "done"
  /\ stdout' = <<>>
  /\ i' = 0
  /\ lines' = <<>>
  /\ NoWrite
  /\ UNCHANGED <<files, sha1Memo, HEAD, refs, entriesIn>>

\* One iteration of "while i < n" in ls_tree.
ls_tree_loop ==
  /\ pc = "ls_tree"
  /\ i < Len(body)
  /\ Len(lines) < MaxLines
  /\ LET r == LsTreeStep(body, i, cmd.name_only)
     IN IF r.ok
        THEN /\ i' = r.i
             /\ lines' = Append(lines, r.line)
             /\ UNCHANGED <<pc, stderr, status>>
        ELSE /\ pc' = "done"
             /\ stderr' = TRACEBACK
             /\ status' = 1
             /\ UNCHANGED <<i, lines>>
  /\ UNCHANGED <<files, sha1Memo, HEAD, refs, cmd, stdout, path, existed,
                 trees, body, entriesIn>>

\* The end of ls_tree: print("\n".join(lines)).
ls_tree_print ==
  /\ pc = "ls_tree"
  /\ i >= Len(body)
  /\ stdout' = Join(<<LF>>, lines) \o <<LF>>
  /\ status' = 0
  /\ pc' = "done"
  /\ UNCHANGED <<files, sha1Memo, HEAD, refs, cmd, stderr, path, existed,
                 trees, body, i, lines, entriesIn>>

\* The process of the command ends; the next command is a new process.
exit ==
  /\ pc = "done"
  /\ pc' = "idle"
  /\ cmd' = [name |-> "none"]
  /\ stdout' = <<>>
  /\ stderr' = ""
  /\ status' = RUNNING
  /\ NoRead /\ NoWrite /\ NoLoop
  /\ UNCHANGED <<files, sha1Memo, HEAD, refs, entriesIn>>

Next ==
  \/ init_repo
  \/ cat_file_p
  \/ hash_object_w
  \/ write_tree
  \/ commit_tree
  \/ ls_tree
  \/ ls_tree_loop
  \/ ls_tree_print
  \/ exit

Spec == Init /\ [][Next]_vars

\* ------------------------------------------------- the tree codec alone

NAME_SP == <<32>>

\* Names of files: a letter, a name with a space inside, a space alone, a
\* letter outside ASCII.
TreeNames == {NAME_A, NAME_A_B, NAME_SP, NAME_E}

TreeModes == {MODE_FILE, MODE_EXEC, MODE_DIR}

\* Digests in hexadecimal: one of SHA-1's (a null byte, a space and a byte
\* above ASCII among its bytes), twenty null bytes, twenty spaces.
TreeDigests ==
  {FIRST, Hex([p \in 1..RAW_LEN |-> NUL]), Hex([p \in 1..RAW_LEN |-> SP])}

\* The entry lists (name, mode, sha) sorted by name, of at most MaxEntries
\* entries.
EntryLists ==
  UNION { { [x \in 1..Len(names) |-> <<names[x], md[x][1], md[x][2]>>] :
            md \in [1..Len(names) -> TreeModes \X TreeDigests] } :
          names \in { SortedNames(S) :
                      S \in {T \in SUBSET TreeNames :
                               Cardinality(T) <= MaxEntries} } }

\* The bodies the malformed trees are made from.
BaseBodies ==
  { TreeBody(<<<<NAME_A, MODE_FILE, FIRST>>>>),
    TreeBody(<<<<NAME_A, MODE_DIR, Hex([p \in 1..RAW_LEN |-> NUL])>>,
               <<NAME_A_B, MODE_EXEC, FIRST>>>>) }

\* s without its byte at position p (1-based).
Without(s, p) == SubSeq(s, 1, p - 1) \o SubSeq(s, p + 1, Len(s))

\* Tree bodies another tool may have left: cut short, with bytes after the
\* last entry, without the first space, without the first null byte.
OtherBodies ==
  { SubSeq(b, 1, Len(b) - cut) : b \in BaseBodies, cut \in {1, 19, 21, 23} }
  \cup { b \o more : b \in BaseBodies, more \in {<<120>>, MODE_FILE} }
  \cup { Without(b, Find(b, SP, 0) + 1) : b \in BaseBodies }
  \cup { Without(b, Find(b, NUL, 0) + 1) : b \in BaseBodies }

\* The store holds one tree: the encoding of an entry list, or another body.
InitTree ==
  /\ Fresh
  /\ \E t \in { [entries |-> Some(es), body |-> TreeBody(es)] :
                es \in EntryLists }
            \cup { [entries |-> None, body |-> b] : b \in OtherBodies } :
       /\ entriesIn = t.entries
       /\ files = (FanoutPath(FIRST) :> Compress(ObjectBytes(TREE, t.body)))
       /\ sha1Memo = (ObjectBytes(TREE, t.body) :> 1)

NextTree ==
  \/ ls_tree
  \/ ls_tree_loop
  \/ ls_tree_print
  \/ exit

SpecTree == InitTree /\ [][NextTree]_vars

\* ------------------------------------------------------------- properties

\* The command name has run to its end.
Ran(name) == pc = "done" /\ cmd.name = name

\* The digest a command printed: its line of output without the newline.
Printed == SubSeq(stdout, 1, Len(stdout) - 1)

\* The locations of the store that hold an object for digest sha1.
Locations(fs, sha1) ==
  {p \in {FanoutPath(sha1), FlatPath(sha1)} : p \in DOMAIN fs}

\* C1 (blob round trip): whenever cat-file -p has run on the digest of a blob
\* that was written with bytes b (empty, or with a null byte inside, too), it
\* ended with status 0, found the kind blob and printed exactly b.
BlobRoundTrip ==
  Ran("cat-file") =>
    \A b \in BlobData :
      (/\ ObjectBytes(BLOB, b) \in DOMAIN sha1Memo
       /\ cmd.sha1 = Sha1Hex(sha1Memo, ObjectBytes(BLOB, b)))
      => (status = 0 /\ stderr = "" /\ stdout = b)

\* A blob with a null byte inside has been written and read back.
BlobRoundTripWitness ==
  /\ Ran("cat-file")
  /\ status = 0
  /\ stdout = <<104, 0, 105>>
  /\ ObjectBytes(BLOB, <<104, 0, 105>>) \in DOMAIN sha1Memo

\* C2 (dedup and digest determinism), as claimed: when hash-object -w has
\* written content that was in the fan-out layout already, it ended with
\* status 0, printed the digest of the content, and the store holds exactly
\* one object for that digest.
WrittenTwiceOneObject ==
  (Ran("hash-object") /\ existed) =>
    /\ status = 0
    /\ Printed = Sha1Hex(sha1Memo, ObjectBytes(BLOB, cmd.data))
    /\ Cardinality(Locations(files, Printed)) = 1

\* C3 (write-once): no step of any command removes a file of the store or
\* changes its bytes.
WriteOnce ==
  [][\A p \in DOMAIN files : p \in DOMAIN files' /\ files'[p] = files[p]]_vars

\* A write has added an object to a store that held one in the flat layout.
WriteOnceWitness ==
  /\ pc = "done"
  /\ cmd.name \in {"hash-object", "write-tree", "commit-tree"}
  /\ ~existed
  /\ FlatPath(FIRST) \in DOMAIN files
  /\ Cardinality(DOMAIN files) = 2

ReadLookup ==
  [][(pc = "idle" /\ cmd'.name \in {"cat-file", "ls-tree"}) =>
       LET fan == FanoutPath(cmd'.sha1)
           flat == FlatPath(cmd'.sha1)
           absent == fan \notin DOMAIN files /\ flat \notin DOMAIN files
       IN /\ fan \in DOMAIN files => path' = fan
          /\ (fan \notin DOMAIN files /\ flat \in DOMAIN files)
               => path' = flat
          /\ absent <=> stderr' = NOT_FOUND
          /\ absent => (/\ path' = None
                        /\ pc' = "done"
                        /\ status' = 1
                        /\ stdout' = <<>>)
          /\ files' = files]_vars

\* ls-tree has run on a digest of which a store that is not empty holds no
\* object.
ReadLookupWitness ==
  /\ Ran("ls-tree")
  /\ stderr = NOT_FOUND
  /\ status = 1
  /\ DOMAIN files # {}
  /\ Locations(files, cmd.sha1) = {}

\* The line ls-tree prints for the entry (name, mode, sha): mode, kind,
\* digest in hexadecimal, a tab and the name; with --name-only, the name.
ExpectedLine(e, name_only) ==
  IF name_only THEN e[1]
  ELSE e[2] \o <<SP>> \o (IF e[2] = MODE_DIR THEN TREE_WORD ELSE BLOB_WORD)
       \o <<SP>> \o e[3] \o <<TAB>> \o e[1]

\* C6 (tree round trip): while ls-tree decodes the tree object (digest FIRST)
\* whose body is the encoding of an entry list sorted by name, the lines it has collected are those of the first entries
\* of the list in order, and when it has run to its end it has ended with
\* status 0 and printed one line per entry: the decoder returns the mode,
\* the name and the digest of every entry, in the order of the list.
TreeRoundTrip ==
  (cmd.name = "ls-tree" /\ entriesIn # None /\ cmd.sha1 = FIRST) =>
    LET es == entriesIn[1]
    IN /\ Len(lines) <= Len(es)
       /\ \A x \in 1..Len(lines) :
            lines[x] = ExpectedLine(es[x], cmd.name_only)
       /\ pc = "done" =>
            /\ status = 0
            /\ stderr = ""
            /\ Len(lines) = Len(es)
            /\ stdout = Join(<<LF>>, lines) \o <<LF>>

\* Two entries have been decoded in full, the first the name with a space
\* inside and a digest of null bytes.
TreeRoundTripWitness ==
  /\ Ran("ls-tree")
  /\ entriesIn # None
  /\ cmd.sha1 = FIRST
  /\ ~cmd.name_only
  /\ status = 0
  /\ Len(lines) = 2
  /\ entriesIn[1][1][1] = NAME_A_B
  /\ entriesIn[1][1][3] = Hex([p \in 1..RAW_LEN |-> NUL])

RECURSIVE Malformed(_, _)
\* The tree body b is malformed from position p (0-based) on: at some entry
\* the space after the mode is missing, the null byte after the name is
\* missing, or fewer than 20 bytes are left for the digest.
Malformed(b, p) ==
  /\ p < Len(b)
  /\ LET j == Find(b, SP, p)
         k == IF j = -1 THEN -1 ELSE Find(b, NUL, j + 1)
     IN \/ j = -1
        \/ k = -1
        \/ k + 1 + RAW_LEN > Len(b)
        \/ Malformed(b, k + 1 + RAW_LEN)

\* C7 (MalformedTree), as claimed: when ls-tree has run to its end on a
\* malformed tree body, it has ended with status 1 and printed no entry.
MalformedTreeFails ==
  (Ran("ls-tree") /\ path # None /\ Malformed(body, 0)) =>
    (status = 1 /\ stdout = <<>>)

\* C10 (tree decoding terminates), as claimed: every iteration of the decode
\* loop of ls-tree leaves the scan position greater than it was.
ScanPositionIncreases ==
  [][(pc = "ls_tree" /\ pc' = "ls_tree") => i' > i]_vars

RECURSIVE EntryNames(_, _)
\* The names of the entries of tree body b from position p (0-based) on, as
\* bytes: each entry is a mode, a space, a name, a null byte and 20 bytes.
EntryNames(b, p) ==
  IF p >= Len(b) THEN <<>>
  ELSE LET j == Find(b, SP, p)
           k == Find(b, NUL, j + 1)
       IN <<Slice(b, j + 1, k)>> \o EntryNames(b, k + 1 + RAW_LEN)

\* The children of a directory that are not named .git.
NotNamedGit(dir) == {n \in DOMAIN dir.children : n # GIT_NAME}

\* The children of a directory other than a directory named .git.
NotGitDirectory(dir) ==
  {n \in DOMAIN dir.children :
     ~(n = GIT_NAME /\ dir.children[n].kind = "dir")}

\* The tree object stored under digest sha1 lists exactly the children named
\* in the set names, each once, in strictly increasing order of the bytes of
\* the name.
ListsInOrder(sha1, names) ==
  LET r == read_object(files, sha1)
      listed == EntryNames(SplitHeader(r.val).body, 0)
  IN /\ r.ok
     /\ StartsWith(r.val, TREE)
     /\ Len(listed) = Cardinality(names)
     /\ {listed[x] : x \in 1..Len(listed)} = {Encode(n) : n \in names}
     /\ \A x \in 1..(Len(listed) - 1) : StrLess(listed[x], listed[x + 1])

\* write-tree has written a tree for the directory it ran in (the digest it
\* printed) and, before the tree of a directory, a tree for each of its
\* listed children that is a directory.
EveryLevelWritten ==
  /\ trees # <<>>
  /\ trees[Len(trees)].dir = cmd.dir
  /\ trees[Len(trees)].sha1 = Printed
  /\ \A x \in 1..Len(trees) :
       \A n \in NotNamedGit(trees[x].dir) :
         trees[x].dir.children[n].kind = "dir" =>
           \E y \in 1..(x - 1) : trees[y].dir = trees[x].dir.children[n]

\* C8 (ordering invariant), amended: every tree write-tree has written, at
\* every level, lists its entries in strictly increasing order of name, no
\* name twice, one entry per direct child that is not named .git, and no
\* entry for a child named .git, be it a directory or a file.
TreeEntriesOrdered ==
  Ran("write-tree") =>
    /\ status = 0
    /\ EveryLevelWritten
    /\ \A x \in 1..Len(trees) :
         ListsInOrder(trees[x].sha1, NotNamedGit(trees[x].dir))

\* write-tree has run in the directory of three directories, one of them
\* holding a file named .git, and written four trees.
TreeEntriesOrderedWitness ==
  /\ Ran("write-tree")
  /\ Len(trees) = 4
  /\ Cardinality(NotNamedGit(cmd.dir)) = 3

\* C8 (ordering invariant), as claimed: every tree write-tree has written
\* lists, in strictly increasing order of name, one entry per direct child
\* of the directory except the .git directory.
TreeListsEveryChild ==
  Ran("write-tree") =>
    \A x \in 1..Len(trees) :
      ListsInOrder(trees[x].sha1, NotGitDirectory(trees[x].dir))

\* text.split(b"\n"): the lines of a byte string.
Lines(bs) ==
  LET cuts == {p \in 1..Len(bs) : bs[p] = LF}
      n == Cardinality(cuts)
      nth(x) == CHOOSE p \in cuts : Cardinality({q \in cuts : q <= p}) = x
      from(x) == IF x = 1 THEN 1 ELSE nth(x - 1) + 1
      to(x) == IF x = n + 1 THEN Len(bs) ELSE nth(x) - 1
  IN [x \in 1..(n + 1) |-> SubSeq(bs, from(x), to(x))]

\* The bytes of bs after its first n lines.
AfterLines(bs, n) ==
  LET cuts == {p \in 1..Len(bs) : bs[p] = LF}
      last == CHOOSE p \in cuts : Cardinality({q \in cuts : q <= p}) = n
  IN SubSeq(bs, last + 1, Len(bs))

\* The parent digest a command line of commit-tree supplies: what follows a
\* -p that comes before the -m, if it is not the empty string.
SuppliedParent(args) ==
  IF Len(args) >= 2 /\ args[1] = OPT_P /\ args[2] # <<>>
  THEN Some(args[2]) ELSE None

\* The message of a command line of commit-tree: the words after the first
\* -m in the place of an option (options and their values come in pairs
\* before it), with a space between them.
SuppliedMessage(args) ==
  LET m == CHOOSE x \in 1..Len(args) :
             /\ args[x] = OPT_M
             /\ x % 2 = 1
             /\ \A y \in 1..(x - 1) : y % 2 = 1 => args[y] # OPT_M
  IN Join(<<SP>>, SubSeq(args, m + 1, Len(args)))

\* C9 (commit shape): the commit object that commit-tree has written and
\* printed the digest of has the line "tree <digest>" first; its second line
\* is "parent <digest>" if a parent digest was supplied and no header line
\* begins with "parent " if none was; then come the author line, the
\* committer line, one blank line, the message and a newline.
CommitShape ==
  (Ran("commit-tree") /\ status = 0) =>
    LET r == read_object(files, Printed)
        h == SplitHeader(r.val)
        ls == Lines(h.body)
        parent == SuppliedParent(cmd.args)
        off == IF parent # None THEN 1 ELSE 0
    IN /\ r.ok
       /\ h.header = COMMIT \o Str(Len(h.body))
       /\ Len(ls) >= 6 + off
       /\ ls[1] = TREE_SP \o Encode(cmd.tree_sha)
       /\ parent # None <=> StartsWith(ls[2], PARENT_SP)
       /\ parent # None => ls[2] = PARENT_SP \o Encode(parent[1])
       /\ \A x \in 1..(4 + off) : x # 2 => ~StartsWith(ls[x], PARENT_SP)
       /\ StartsWith(ls[2 + off], AUTHOR_SP \o AUTHOR \o <<SP>>)
       /\ StartsWith(ls[3 + off], COMMITTER_SP \o AUTHOR \o <<SP>>)
       /\ ls[4 + off] = <<>>
       /\ AfterLines(h.body, 4 + off)
            = Encode(SuppliedMessage(cmd.args)) \o <<LF>>

\* A commit with a parent has been written.
CommitShapeWitness ==
  /\ Ran("commit-tree")
  /\ status = 0
  /\ ~existed
  /\ cmd.args = <<OPT_P, DANGLING, OPT_M, MSG_INIT>>

====
